---- MODULE Spec2Model ----
(***************************************************************************)
(* State-machine model of the YouTube Lounge integration:                  *)
(*   config_flow.py  - the two-step onboarding flow (key step, pair step)  *)
(*   __init__.py     - entry setup / unload                                *)
(*   media_player.py - the YtMediaPlayer entity                            *)
(* The casting client (pyytlounge), the metadata client (aiogoogle) and    *)
(* the host framework are external: every answer they can give is an       *)
(* input chosen nondeterministically by the action that calls them.        *)
(***************************************************************************)
EXTENDS Integers, Sequences, FiniteSets, TLC

\* ---------------------------------------------------------------- bounds
MaxCodeLen == 2          \* longest pairing code string submitted
MaxSubmits == 3          \* form submissions per flow
MaxPushes == 3           \* push updates delivered per adapter
MaxSetups == 2           \* entry setups per run

\* ------------------------------------------------------- python helpers
None == "None"

EmptyDict == [k \in {} |-> None]

Has(d, k) == k \in DOMAIN d

Put(d, k, v) == [x \in (DOMAIN d) \cup {k} |-> IF x = k THEN v ELSE d[x]]

\* dict.get(k): the value, or None when the key is absent
Get(d, k) == IF Has(d, k) THEN d[k] ELSE None

\* Python truthiness of "str | None"
Truthy(v) == v # None /\ v # ""

\* "dict | None": NoneInput is None, Some(d) is the dict d
NoneInput == <<>>

Some(d) == <<d>>

IsNone(x) == Len(x) = 0

Val(x) == x[1]

\* ------------------------------------------------------------ the inputs
CodeChars == {"1", "-", "a"}

Codes == UNION {[1..n -> CodeChars] : n \in 0..MaxCodeLen}

ApiKeys == {"", "k"}

\* what the user can submit in the key step: field omitted, or a string
UserInputs == {EmptyDict} \cup {[google_api_key |-> k] : k \in ApiKeys}

ScreenNames == {"LivingRoomTV", "Bedroom"}

\* aiogoogle.discover("youtube", "v3")
DiscoverOutcomes == {"ok", "HTTPError", "Exception"}

\* aiogoogle.as_api_key(request) in the trial lookup
TrialOutcomes == {"ok", "http400", "http500", "http_nores", "Exception"}

\* api.pair(code)
PairOutcomes == {"true", "false", "raise"}

\* ------------------------------------------------------------ int(str)
IsDigit(c) == c = "1"

DigitVal(c) == 1

RECURSIVE DigitsValue(_)
DigitsValue(s) ==
    IF Len(s) = 0 THEN 0
    ELSE 10 * DigitsValue(SubSeq(s, 1, Len(s) - 1)) + DigitVal(s[Len(s)])

AllDigits(s) == Len(s) > 0 /\ \A i \in 1..Len(s) : IsDigit(s[i])

\* int(data["pairing_code"]): optional sign, then one or more digits;
\* anything else raises ValueError (ok = FALSE)
ParseInt(s) ==
    IF AllDigits(s) THEN [ok |-> TRUE, value |-> DigitsValue(s)]
    ELSE IF Len(s) > 1 /\ s[1] = "-" /\ AllDigits(Tail(s))
         THEN [ok |-> TRUE, value |-> 0 - DigitsValue(Tail(s))]
    ELSE [ok |-> FALSE, value |-> 0]

\* ------------------------------------------------------- the auth token
\* the client's auth state after pairing with the screen named n
AuthOf(n) == [screen_id |-> <<"id", n>>, lounge_token |-> <<"tok", n>>]

Serialize(a) == <<"serialized", a.screen_id, a.lounge_token>>

Deserialize(b) == [screen_id |-> b[2], lounge_token |-> b[3]]

\* ---------------------------------------------------- playback states
\* pyytlounge State values; "Unset" stands for an empty/unknown value
YtStates == {"Stopped", "Buffering", "Playing", "Paused", "Starting",
             "Advertisement", "Unset"}

VideoIds == {"", "abc123", "xyz789"}

\* currentTime and duration are floats, kept here in tenths of a second
Samples == {[currentTime |-> 0, duration |-> 0],
            [currentTime |-> 425, duration |-> 3000]}

Snapshots ==
    {[state |-> st, videoId |-> v, currentTime |-> m.currentTime,
      duration |-> m.duration] : st \in YtStates, v \in VideoIds, m \in Samples}

\* PlaybackState(): the library's empty snapshot; src does not fix which
\* State value it carries, so every value is possible
FreshStates ==
    {[state |-> st, videoId |-> "", currentTime |-> 0, duration |-> 0] :
        st \in YtStates}

\* int(x) of a non-negative float held in tenths
IntOf(x) == x \div 10

\* the snippet the metadata API holds for a video id
SnippetOf(v) ==
    CASE v = "abc123" ->
           [title |-> "title of abc123", description |-> "about abc123",
            channelTitle |-> "channel of abc123"]
      [] v = "xyz789" ->
           [title |-> "title of xyz789", description |-> "about xyz789",
            channelTitle |-> "channel of xyz789"]
      [] OTHER ->
           [title |-> "", description |-> "", channelTitle |-> ""]

\* pyytlounge.get_thumbnail_url(video_id)
get_thumbnail_url(v) ==
    CASE v = "abc123" -> "https://img.youtube.com/vi/abc123/0.jpg"
      [] v = "xyz789" -> "https://img.youtube.com/vi/xyz789/0.jpg"
      [] OTHER -> "https://img.youtube.com/vi//0.jpg"

\* --------------------------------------------------------------- state
VARIABLES
    flowResult,     \* the FlowResult last returned by the flow (NoResult before)
    lastSubmit,     \* observation: what the last form submission did
    nSubmits,       \* number of form submissions so far
    acceptedKey,    \* observation: the API key the key step went on with
    entry,          \* the ConfigEntry handed to setup
    hassData,       \* hass.data[DOMAIN]: entry id -> live client handle
    setupPc,        \* position of __init__.async_setup_entry
    connected,      \* observation: what api.connect() answered
    setupResult,    \* what async_setup_entry returned
    unloadResult,   \* what async_unload_entry returned
    nSetups,        \* number of setups so far
    player,         \* TRUE while a YtMediaPlayer exists
    google_api_key, \* YtMediaPlayer._google_api_key
    yt_api,         \* YtMediaPlayer._yt_api
    state,          \* YtMediaPlayer._state
    state_time,     \* YtMediaPlayer._state_time
    video_info,     \* YtMediaPlayer._video_info
    subscription,   \* YtMediaPlayer._subscription and the task's status
    initTask,       \* position of the __setup_youtube_api task
    callback,       \* position of the __new_state callback
    now,            \* the clock read by utcnow(); also the number of pushes
    command,        \* position of the transport command being served
    obs             \* observation: calls made by the adapter

flowVars == <<flowResult, lastSubmit, nSubmits, acceptedKey>>

entryVars == <<entry, hassData, setupPc, connected, setupResult, unloadResult,
              nSetups>>

playerVars == <<player, google_api_key, yt_api, state, state_time, video_info,
                subscription, initTask, callback, now, command, obs>>

vars == <<flowResult, lastSubmit, nSubmits, acceptedKey, entry, hassData,
          setupPc, connected, setupResult, unloadResult, nSetups, player,
          google_api_key, yt_api, state, state_time, video_info, subscription,
          initTask, callback, now, command, obs>>

\* ------------------------------------------------------------ the flow
ShowForm(step, err) ==
    [type |-> "form", step_id |-> step, errors |-> err,
     title |-> None, data |-> EmptyDict]

NoResult ==
    [type |-> "none", step_id |-> None, errors |-> None,
     title |-> None, data |-> EmptyDict]

CreateEntry(title, data) ==
    [type |-> "create_entry", step_id |-> None, errors |-> None,
     title |-> title, data |-> data]

\* validate_google_api_key: the exception it raises ("ok" when it returns),
\* and which calls it made on the metadata client
validate_google_api_key(data, discover, trial) ==
    IF ~Has(data, "google_api_key")
    THEN [raises |-> "KeyError", discovered |-> FALSE, lookedUp |-> FALSE]
    ELSE IF ~Truthy(data["google_api_key"])
    THEN [raises |-> "ok", discovered |-> FALSE, lookedUp |-> FALSE]
    ELSE IF discover # "ok"
    THEN [raises |-> discover, discovered |-> TRUE, lookedUp |-> FALSE]
    ELSE [raises |-> CASE trial = "ok" -> "ok"
                       [] trial = "http400" -> "InvalidAuth"
                       [] trial \in {"http500", "http_nores"} -> "CannotConnect"
                       [] OTHER -> "CannotConnect",
          discovered |-> TRUE, lookedUp |-> TRUE]

\* validate_pairing_code with the parse failure reported as CannotConnect
validate_pairing_code_NoParseGuard(data, pairs, screen) ==
    LET code == ParseInt(data["pairing_code"]) IN
    IF ~code.ok
    THEN [raises |-> "CannotConnect", title |-> None, data |-> data,
          pairCalled |-> FALSE, pairArg |-> {}]
    ELSE CASE pairs = "true" ->
                [raises |-> "ok", title |-> screen,
                 data |-> Put(data, "auth", Serialize(AuthOf(screen))),
                 pairCalled |-> TRUE, pairArg |-> {code.value}]
           [] pairs = "false" ->
                [raises |-> "InvalidAuth", title |-> None, data |-> data,
                 pairCalled |-> TRUE, pairArg |-> {code.value}]
           [] OTHER ->
                [raises |-> "Exception", title |-> None, data |-> data,
                 pairCalled |-> TRUE, pairArg |-> {code.value}]

\* validate_pairing_code: the exception it raises ("ok" when it returns),
\* the title it returns, data as it leaves it, and whether pair was called
validate_pairing_code(data, pairs, screen) ==
    LET code == ParseInt(data["pairing_code"]) IN
    IF ~code.ok
    THEN [raises |-> "InvalidAuth", title |-> None, data |-> data,
          pairCalled |-> FALSE, pairArg |-> {}]
    ELSE CASE pairs = "true" ->
                [raises |-> "ok", title |-> screen,
                 data |-> Put(data, "auth", Serialize(AuthOf(screen))),
                 pairCalled |-> TRUE, pairArg |-> {code.value}]
           [] pairs = "false" ->
                [raises |-> "InvalidAuth", title |-> None, data |-> data,
                 pairCalled |-> TRUE, pairArg |-> {code.value}]
           [] OTHER ->
                [raises |-> "Exception", title |-> None, data |-> data,
                 pairCalled |-> TRUE, pairArg |-> {code.value}]

\* the except clauses of both steps
ErrorOf(raised) ==
    CASE raised = "CannotConnect" -> "cannot_connect"
      [] raised = "InvalidAuth" -> "invalid_auth"
      [] OTHER -> "unknown"

\* async_step_pair leaving the flow when validation fails
async_step_pair_AbortsOnError(user_input, pairs, screen) ==
    IF IsNone(user_input) \/ ~Has(Val(user_input), "pairing_code")
    THEN ShowForm("pair", None)
    ELSE LET v == validate_pairing_code(Val(user_input), pairs, screen) IN
         IF v.raises = "ok"
         THEN CreateEntry(v.title, v.data)
         ELSE [type |-> "abort", step_id |-> None,
               errors |-> ErrorOf(v.raises), title |-> None,
               data |-> EmptyDict]

\* ConfigFlow.async_step_pair(user_input)
async_step_pair(user_input, pairs, screen) ==
    IF IsNone(user_input) \/ ~Has(Val(user_input), "pairing_code")
    THEN ShowForm("pair", None)
    ELSE LET v == validate_pairing_code(Val(user_input), pairs, screen) IN
         IF v.raises = "ok"
         THEN CreateEntry(v.title, v.data)
         ELSE ShowForm("pair", ErrorOf(v.raises))

\* ConfigFlow.async_step_user(user_input)
async_step_user(user_input, discover, trial) ==
    IF IsNone(user_input)
    THEN ShowForm("user", None)
    ELSE LET v == validate_google_api_key(Val(user_input), discover, trial) IN
         IF v.raises = "ok"
         THEN async_step_pair(user_input, "false", None)
         ELSE ShowForm("user", ErrorOf(v.raises))

NoSubmit ==
    [step |-> None, input |-> EmptyDict, raised |-> None,
     discovered |-> FALSE, lookedUp |-> FALSE, discover |-> None,
     trial |-> None, pairCalled |-> FALSE, pairArg |-> {},
     pairs |-> None, screen |-> None]

\* the host starts the flow: async_step_user(None)
FlowInit ==
    /\ flowResult = NoResult
    /\ flowResult' = async_step_user(NoneInput, "ok", "ok")
    /\ UNCHANGED <<lastSubmit, nSubmits, acceptedKey, entryVars, playerVars>>

\* the user submits the key form
SubmitUser ==
    /\ flowResult.type = "form" /\ flowResult.step_id = "user"
    /\ nSubmits < MaxSubmits
    /\ \E input \in UserInputs, discover \in DiscoverOutcomes,
          trial \in TrialOutcomes :
         LET v == validate_google_api_key(input, discover, trial) IN
         /\ flowResult' = async_step_user(Some(input), discover, trial)
         /\ lastSubmit' = [NoSubmit EXCEPT !.step = "user", !.input = input,
                              !.raised = v.raises,
                              !.discovered = v.discovered,
                              !.lookedUp = v.lookedUp,
                              !.discover = discover, !.trial = trial]
         /\ acceptedKey' = IF v.raises = "ok"
                           THEN Get(input, "google_api_key")
                           ELSE acceptedKey
    /\ nSubmits' = nSubmits + 1
    /\ UNCHANGED <<entryVars, playerVars>>

\* the user submits the pairing form
SubmitPair ==
    /\ flowResult.type = "form" /\ flowResult.step_id = "pair"
    /\ nSubmits < MaxSubmits
    /\ \E code \in Codes, pairs \in PairOutcomes, screen \in ScreenNames :
         LET input == [pairing_code |-> code]
             v == validate_pairing_code(input, pairs, screen) IN
         /\ flowResult' = async_step_pair(Some(input), pairs, screen)
         /\ lastSubmit' = [NoSubmit EXCEPT !.step = "pair", !.input = input,
                              !.raised = v.raises,
                              !.pairCalled = v.pairCalled,
                              !.pairArg = v.pairArg,
                              !.pairs = pairs, !.screen = screen]
    /\ nSubmits' = nSubmits + 1
    /\ UNCHANGED acceptedKey
    /\ UNCHANGED <<entryVars, playerVars>>

\* ------------------------------------------------------ entry lifecycle
EntryId == "e1"

NoEntry == [entry_id |-> None, data |-> EmptyDict]

Remove(d, k) == [x \in (DOMAIN d) \ {k} |-> d[x]]

\* YtLoungeApi(device_name(hass)) with its auth restored from the entry
ApiOf(data) == [auth |-> Deserialize(data["auth"])]

\* the entries the host can hand to setup: the data the flow persisted, or
\* that data stored together with an API key (media_player.py reads one)
EntryDatas ==
    {flowResult.data} \cup
    {Put(flowResult.data, "google_api_key", k) : k \in ApiKeys}

\* ------------------------------------------------------------ the adapter
NoInfo == <<>>

\* _VideoInfo(video_id, snippet)
VideoInfo(video_id, snippet) ==
    [id |-> video_id, title |-> snippet.title,
     description |-> snippet.description,
     channel_title |-> snippet.channelTitle]

DummyState == [state |-> "Unset", videoId |-> "", currentTime |-> 0,
               duration |-> 0]

NoPush == [id |-> None, ready |-> FALSE, issued |-> 0, result |-> None,
           notified |-> FALSE]

NoObs == [lookups |-> 0, writes |-> 0, discovers |-> 0,
          prevPush |-> NoPush, lastPush |-> NoPush,
          started |-> 0, cancelled |-> 0, hookRaised |-> FALSE,
          pushed |-> DummyState]

Idle == [pc |-> "idle", req |-> None]

\* __update_video_snippet without the "already have this video info" return
update_video_snippet_NoCache(api, st, info) ==
    IF api # None /\ Truthy(st.videoId)
    THEN [lookup |-> TRUE, req |-> st.videoId, info |-> info]
    ELSE [lookup |-> FALSE, req |-> None, info |-> NoInfo]

\* __update_video_snippet looking up without a metadata client
update_video_snippet_NoApiCheck(api, st, info) ==
    IF Truthy(st.videoId)
    THEN IF ~IsNone(info) /\ st.videoId = Val(info).id
         THEN [lookup |-> FALSE, req |-> None, info |-> info]
         ELSE [lookup |-> TRUE, req |-> st.videoId, info |-> info]
    ELSE [lookup |-> FALSE, req |-> None, info |-> NoInfo]

\* YtMediaPlayer.__update_video_snippet up to its first await: either it
\* returns at once (lookup = FALSE) leaving video_info as given in info, or
\* it issues the lookup for req and suspends
update_video_snippet(api, st, info) ==
    IF api # None /\ Truthy(st.videoId)
    THEN IF ~IsNone(info) /\ st.videoId = Val(info).id
         THEN [lookup |-> FALSE, req |-> None, info |-> info]
         ELSE [lookup |-> TRUE, req |-> st.videoId, info |-> info]
    ELSE [lookup |-> FALSE, req |-> None, info |-> NoInfo]

\* state with Buffering missing from the playing states
State_NoBuffering(st) ==
    IF st.state \in {"Playing", "Starting"} THEN "playing"
    ELSE IF st.state = "Paused" THEN "paused"
    ELSE IF st.state = "Stopped" THEN "on"
    ELSE "off"

\* YtMediaPlayer.state
State(st) ==
    IF st.state \in {"Playing", "Starting", "Buffering"} THEN "playing"
    ELSE IF st.state = "Paused" THEN "paused"
    ELSE IF st.state = "Stopped" THEN "on"
    ELSE "off"

\* YtMediaPlayer.media_title
media_title(info) ==
    IF ~IsNone(info) /\ Val(info).title # "" THEN Val(info).title ELSE ""

\* YtMediaPlayer.media_channel
media_channel(info) ==
    IF ~IsNone(info) /\ Val(info).channel_title # ""
    THEN Val(info).channel_title ELSE ""

\* YtMediaPlayer.media_position
media_position(st) == IntOf(st.currentTime)

\* YtMediaPlayer.media_duration
media_duration(st) == IntOf(st.duration)

\* YtMediaPlayer.media_image_url
media_image_url(st) ==
    IF Truthy(st.videoId) THEN get_thumbnail_url(st.videoId) ELSE None

\* __removed_from_hass leaving the task alone
removed_from_hass_NoCancel(sub) ==
    [sub |-> sub, raised |-> FALSE]

\* __removed_from_hass without the "if self._subscription" guard
removed_from_hass_NoGuard(sub) ==
    IF sub # None
    THEN [sub |-> IF sub = "running" THEN "cancelled" ELSE sub,
          raised |-> FALSE]
    ELSE [sub |-> sub, raised |-> TRUE]

\* YtMediaPlayer.__removed_from_hass: the task's status afterwards (cancel
\* ends a running task and leaves an ended one as it is) and whether the
\* hook raised
removed_from_hass(sub) ==
    IF sub # None
    THEN [sub |-> IF sub = "running" THEN "cancelled" ELSE sub,
          raised |-> FALSE]
    ELSE [sub |-> sub, raised |-> FALSE]

\* the hook's effect on the adapter: a cancelled task abandons the
\* callback suspended in its lookup
RunRemoveHook ==
    LET r == removed_from_hass(subscription) IN
    /\ subscription' = r.sub
    /\ callback' = IF r.sub # subscription THEN Idle ELSE callback
    /\ obs' = [obs EXCEPT
                 !.cancelled = IF r.sub # subscription THEN @ + 1 ELSE @,
                 !.hookRaised = @ \/ r.raised]

\* -------------------------------------------------- transport commands
Commands == {"pause", "play", "previous", "next", "seek"}

\* positions the host asks to seek to (tenths of a second)
Positions == {425}

NoCommand ==
    [pc |-> "idle", name |-> None, position |-> 0, calls |-> <<>>,
     failed |-> FALSE]

\* async_media_seek dropping the position it was given
media_command_SeekToStart(name, position) ==
    CASE name = "pause" -> <<[op |-> "pause", args |-> <<>>]>>
      [] name = "play" -> <<[op |-> "play", args |-> <<>>]>>
      [] name = "previous" -> <<[op |-> "previous", args |-> <<>>]>>
      [] name = "next" -> <<[op |-> "next", args |-> <<>>]>>
      [] OTHER -> <<[op |-> "seek_to", args |-> <<0>>]>>

\* async_media_pause/play/previous_track/next_track/seek: the client calls
\* the command issues before it awaits the answer
media_command(name, position) ==
    CASE name = "pause" -> <<[op |-> "pause", args |-> <<>>]>>
      [] name = "play" -> <<[op |-> "play", args |-> <<>>]>>
      [] name = "previous" -> <<[op |-> "previous", args |-> <<>>]>>
      [] name = "next" -> <<[op |-> "next", args |-> <<>>]>>
      [] OTHER -> <<[op |-> "seek_to", args |-> <<position>>]>>

\* a command calling the client once more when the call failed
media_command_return_Retries(cmd, answer) ==
    IF answer = "ok"
    THEN [cmd EXCEPT !.pc = "returned", !.failed = FALSE]
    ELSE [cmd EXCEPT !.pc = "returned", !.failed = TRUE,
                     !.calls = cmd.calls \o cmd.calls]

\* "return await self._api...": the client's answer is the command's
\* answer, its exception the command's exception
media_command_return(cmd, answer) ==
    IF answer = "ok"
    THEN [cmd EXCEPT !.pc = "returned", !.failed = FALSE]
    ELSE [cmd EXCEPT !.pc = "raised", !.failed = TRUE]

\* ------------------------------------------------- lifecycle: the actions
\* the player variables describe the adapter of the current setup: a new
\* setup starts without one (an adapter of an earlier setup was removed)
FreshPlayer ==
    /\ player' = "none"
    /\ google_api_key' = None
    /\ yt_api' = None
    /\ state' = DummyState
    /\ state_time' = 0
    /\ video_info' = NoInfo
    /\ subscription' = None
    /\ initTask' = [pc |-> "none", req |-> None]
    /\ callback' = Idle
    /\ command' = NoCommand
    /\ obs' = NoObs

\* __init__.async_setup_entry up to "await api.connect()"
SetupBegin ==
    /\ flowResult.type = "create_entry"
    /\ setupPc = "idle"
    /\ nSetups < MaxSetups
    /\ \E data \in EntryDatas :
         entry' = [entry_id |-> EntryId, data |-> data]
    /\ setupPc' = "connecting"
    /\ connected' = None
    /\ setupResult' = None
    /\ unloadResult' = None
    /\ nSetups' = nSetups + 1
    /\ FreshPlayer
    /\ UNCHANGED <<flowVars, hassData, now>>

\* setup registering the handle whatever connect answered
SetupConnect_RegistersAlways ==
    /\ setupPc = "connecting"
    /\ \E answer \in {"true", "false", "raise"} :
         /\ connected' = answer
         /\ hassData' = Put(hassData, entry.entry_id, ApiOf(entry.data))
         /\ CASE answer = "true" ->
                  /\ setupPc' = "forwarding"
                  /\ UNCHANGED setupResult
              [] answer = "false" ->
                  /\ setupPc' = "done"
                  /\ setupResult' = "True"
              [] OTHER ->
                  /\ setupPc' = "idle"
                  /\ setupResult' = "raised"
    /\ UNCHANGED <<flowVars, entry, unloadResult, nSetups, playerVars>>

\* api.connect() answers
SetupConnect ==
    /\ setupPc = "connecting"
    /\ \E answer \in {"true", "false", "raise"} :
         /\ connected' = answer
         /\ CASE answer = "true" ->
                  /\ hassData' =
                        Put(hassData, entry.entry_id, ApiOf(entry.data))
                  /\ setupPc' = "forwarding"
                  /\ UNCHANGED setupResult
              [] answer = "false" ->
                  /\ setupPc' = "done"
                  /\ setupResult' = "True"
                  /\ UNCHANGED hassData
              [] OTHER ->
                  /\ setupPc' = "idle"
                  /\ setupResult' = "raised"
                  /\ UNCHANGED hassData
    /\ UNCHANGED <<flowVars, entry, unloadResult, nSetups, playerVars>>

\* async_forward_entry_setups: media_player.async_setup_entry constructs the
\* YtMediaPlayer (YtMediaPlayer.__init__), then setup returns True
SetupForward ==
    /\ setupPc = "forwarding"
    /\ Has(hassData, entry.entry_id)
    /\ LET api_key == Get(entry.data, "google_api_key") IN
         /\ google_api_key' = api_key
         /\ initTask' = IF Truthy(api_key)
                        THEN [pc |-> "discovering", req |-> None]
                        ELSE [pc |-> "none", req |-> None]
         /\ obs' = [NoObs EXCEPT !.discovers =
                                   IF Truthy(api_key) THEN 1 ELSE 0]
    /\ player' = "created"
    /\ yt_api' = None
    /\ state_time' = now
    /\ state' \in FreshStates
    /\ video_info' = NoInfo
    /\ subscription' = None
    /\ callback' = Idle
    /\ setupPc' = "done"
    /\ setupResult' = "True"
    /\ UNCHANGED <<flowVars, command, entry, hassData, connected, unloadResult,
                   nSetups, now>>

\* __init__.async_unload_entry; unload_ok is what async_unload_platforms
\* answers, and a successful platform unload removes the entity
UnloadEntry ==
    /\ setupPc = "done" /\ setupResult = "True" /\ unloadResult = None
    /\ \E unload_ok \in BOOLEAN :
         IF unload_ok
         THEN /\ IF player = "added"
                 THEN /\ RunRemoveHook
                      /\ player' = "removed"
                 ELSE /\ player' = IF player = "none" THEN player
                                   ELSE "removed"
                      /\ UNCHANGED <<subscription, callback, obs>>
              /\ IF Has(hassData, entry.entry_id)
                 THEN /\ hassData' = Remove(hassData, entry.entry_id)
                      /\ unloadResult' = "True"
                      /\ setupPc' = "idle"
                 ELSE /\ unloadResult' = "KeyError"
                      /\ UNCHANGED <<hassData, setupPc>>
         ELSE /\ unloadResult' = "False"
              /\ UNCHANGED <<hassData, setupPc, subscription, callback,
                             player, obs>>
    /\ UNCHANGED <<flowVars, command, entry, connected, setupResult, nSetups,
                   google_api_key, yt_api, state, state_time, video_info,
                   initTask, now>>

\* --------------------------------------------------- adapter: the actions
\* YtMediaPlayer.async_added_to_hass
AddedToHass ==
    /\ player = "created"
    /\ player' = "added"
    /\ subscription' = "running"
    /\ obs' = [obs EXCEPT !.started = @ + 1]
    /\ UNCHANGED <<flowVars, command, entryVars, google_api_key, yt_api, state,
                   state_time, video_info, initTask, callback, now>>

\* __removed_from_hass runs: as the on-remove hook when the host removes
\* the entity, and again or before the subscription was started
RemovedFromHass ==
    /\ player \in {"created", "added", "removed"}
    /\ player' = "removed"
    /\ RunRemoveHook
    /\ UNCHANGED <<flowVars, command, entryVars, google_api_key, yt_api, state,
                   state_time, video_info, initTask, now>>

\* __setup_youtube_api: discover answers; on success a snapshot that already
\* carries a video id is refreshed
SetupYoutubeApi ==
    /\ initTask.pc = "discovering"
    /\ \E discover \in {"ok", "raise"} :
         IF discover = "ok"
         THEN /\ yt_api' = "ready"
              /\ IF Truthy(state.videoId)
                 THEN LET u == update_video_snippet("ready", state, video_info)
                      IN IF u.lookup
                         THEN /\ initTask' = [pc |-> "lookup", req |-> u.req]
                              /\ obs' = [obs EXCEPT !.lookups = @ + 1]
                              /\ UNCHANGED video_info
                         ELSE /\ initTask' = [pc |-> "done", req |-> None]
                              /\ video_info' = u.info
                              /\ obs' = [obs EXCEPT !.writes = @ + 1]
                 ELSE /\ initTask' = [pc |-> "done", req |-> None]
                      /\ UNCHANGED <<video_info, obs>>
         ELSE /\ initTask' = [pc |-> "raised", req |-> None]
              /\ UNCHANGED <<yt_api, video_info, obs>>
    /\ UNCHANGED <<flowVars, command, entryVars, player, google_api_key, state,
                   state_time, subscription, callback, now>>

\* __setup_youtube_api: the lookup it issued answers
SetupYoutubeApiLookup ==
    /\ initTask.pc = "lookup"
    /\ \E answer \in {"ok", "raise"} :
         IF answer = "ok"
         THEN /\ video_info' =
                    Some(VideoInfo(state.videoId, SnippetOf(initTask.req)))
              /\ obs' = [obs EXCEPT !.writes = @ + 1]
              /\ initTask' = [pc |-> "done", req |-> None]
         ELSE /\ initTask' = [pc |-> "raised", req |-> None]
              /\ UNCHANGED <<video_info, obs>>
    /\ UNCHANGED <<flowVars, command, entryVars, player, google_api_key, yt_api, state,
                   state_time, subscription, callback, now>>

\* __new_state(s): the subscription delivers a push update
NewState ==
    /\ subscription = "running"
    /\ callback.pc = "idle"
    /\ now < MaxPushes
    /\ \E s \in Snapshots :
         LET u == update_video_snippet(yt_api, s, video_info)
             push == [id |-> s.videoId, ready |-> yt_api # None,
                      issued |-> IF u.lookup THEN 1 ELSE 0,
                      result |-> IF u.lookup THEN "pending"
                                 ELSE IF IsNone(u.info) THEN "cleared"
                                 ELSE "hit",
                      notified |-> ~u.lookup]
         IN /\ state' = s
            /\ video_info' = u.info
            /\ callback' = IF u.lookup THEN [pc |-> "lookup", req |-> u.req]
                           ELSE Idle
            /\ obs' = [obs EXCEPT
                         !.lookups = IF u.lookup THEN @ + 1 ELSE @,
                         !.writes = IF u.lookup THEN @ ELSE @ + 1,
                         !.prevPush = obs.lastPush,
                         !.lastPush = push,
                         !.pushed = s]
    /\ now' = now + 1
    /\ state_time' = now'
    /\ UNCHANGED <<flowVars, command, entryVars, player, google_api_key, yt_api,
                   subscription, initTask>>

\* __new_state: the lookup it issued answers; a failure leaves the callback
\* by exception, and whether the subscription task survives that is the
\* client library's business
NewStateLookup ==
    /\ callback.pc = "lookup"
    /\ \E answer \in {"ok", "raise"}, survives \in BOOLEAN :
         IF answer = "ok"
         THEN /\ video_info' =
                    Some(VideoInfo(state.videoId, SnippetOf(callback.req)))
              /\ obs' = [obs EXCEPT !.writes = @ + 1,
                                    !.lastPush.result = "ok",
                                    !.lastPush.notified = TRUE]
              /\ UNCHANGED subscription
         ELSE /\ obs' = [obs EXCEPT !.lastPush.result = "raised"]
              /\ subscription' = IF survives THEN subscription ELSE "raised"
              /\ UNCHANGED video_info
    /\ callback' = Idle
    /\ UNCHANGED <<flowVars, command, entryVars, player, google_api_key, yt_api, state,
                   state_time, initTask, now>>

\* a pause command that also marks the snapshot as paused
MediaCommand_OptimisticPause ==
    /\ player = "added"
    /\ command.pc # "awaiting"
    /\ \E name \in Commands, position \in Positions :
         /\ command' = [pc |-> "awaiting", name |-> name,
                        position |-> position,
                        calls |-> media_command(name, position),
                        failed |-> FALSE]
         /\ state' = IF name = "pause" THEN [state EXCEPT !.state = "Paused"]
                     ELSE state
    /\ UNCHANGED <<flowVars, entryVars, player, google_api_key, yt_api,
                   state_time, video_info, subscription, initTask, callback,
                   now, obs>>

\* the host calls a transport command; it suspends in the client call
MediaCommand ==
    /\ player = "added"
    /\ command.pc # "awaiting"
    /\ \E name \in Commands, position \in Positions :
         command' = [pc |-> "awaiting", name |-> name,
                     position |-> position,
                     calls |-> media_command(name, position),
                     failed |-> FALSE]
    /\ UNCHANGED <<flowVars, entryVars, player, google_api_key, yt_api, state,
                   state_time, video_info, subscription, initTask, callback,
                   now, obs>>

\* the client answers the command's call
MediaCommandReturn ==
    /\ command.pc = "awaiting"
    /\ \E answer \in {"ok", "raise"} :
         command' = media_command_return(command, answer)
    /\ UNCHANGED <<flowVars, entryVars, player, google_api_key, yt_api, state,
                   state_time, video_info, subscription, initTask, callback,
                   now, obs>>

\* ----------------------------------------------------- the specifications
NoPlayer ==
    /\ player = "none"
    /\ google_api_key = None
    /\ yt_api = None
    /\ state = DummyState
    /\ state_time = 0
    /\ video_info = NoInfo
    /\ subscription = None
    /\ initTask = [pc |-> "none", req |-> None]
    /\ callback = Idle
    /\ now = 0
    /\ command = NoCommand
    /\ obs = NoObs

NoSetup ==
    /\ entry = NoEntry
    /\ hassData = EmptyDict
    /\ setupPc = "idle"
    /\ connected = None
    /\ setupResult = None
    /\ unloadResult = None
    /\ nSetups = 0

\* the onboarding flow, from its start to the created entry
FlowInitial ==
    /\ flowResult = NoResult
    /\ lastSubmit = NoSubmit
    /\ nSubmits = 0
    /\ acceptedKey = None
    /\ NoSetup
    /\ NoPlayer

FlowNext ==
    \/ FlowInit
    \/ SubmitUser
    \/ SubmitPair

FlowSpec == FlowInitial /\ [][FlowNext]_vars

\* a flow run to its end: key step with an empty key, then pairing code "11" accepted by the screen "LivingRoomTV"
PairedCode == <<"1", "1">>

PairedSubmit ==
    [NoSubmit EXCEPT !.step = "pair",
                     !.input = [pairing_code |-> PairedCode],
                     !.raised = "ok", !.pairCalled = TRUE,
                     !.pairArg = {ParseInt(PairedCode).value},
                     !.pairs = "true", !.screen = "LivingRoomTV"]

\* the entry's life after the flow created it: setup, the adapter, unload
Init ==
    /\ flowResult = async_step_pair(Some([pairing_code |-> PairedCode]),
                                    "true", "LivingRoomTV")
    /\ lastSubmit = PairedSubmit
    /\ nSubmits = 2
    /\ acceptedKey = ""
    /\ NoSetup
    /\ NoPlayer

\* an adapter with an API key, as media_player.async_setup_entry has just
\* constructed it, and what happens to it from then on
AdapterInit ==
    /\ flowResult = async_step_pair(Some([pairing_code |-> PairedCode]),
                                    "true", "LivingRoomTV")
    /\ lastSubmit = PairedSubmit
    /\ nSubmits = 2
    /\ acceptedKey = ""
    /\ entry = [entry_id |-> EntryId,
                data |-> Put(flowResult.data, "google_api_key", "k")]
    /\ hassData = Put(EmptyDict, EntryId, ApiOf(entry.data))
    /\ setupPc = "done"
    /\ connected = "true"
    /\ setupResult = "True"
    /\ unloadResult = None
    /\ nSetups = 1
    /\ player = "created"
    /\ google_api_key = "k"
    /\ yt_api = None
    /\ state \in FreshStates
    /\ state_time = 0
    /\ video_info = NoInfo
    /\ subscription = None
    /\ initTask = [pc |-> "discovering", req |-> None]
    /\ callback = Idle
    /\ now = 0
    /\ command = NoCommand
    /\ obs = [NoObs EXCEPT !.discovers = 1]

AdapterNext ==
    \/ AddedToHass
    \/ RemovedFromHass
    \/ SetupYoutubeApi
    \/ SetupYoutubeApiLookup
    \/ NewState
    \/ NewStateLookup
    \/ MediaCommand
    \/ MediaCommandReturn

AdapterSpec == AdapterInit /\ [][AdapterNext]_vars

Next ==
    \/ SetupBegin
    \/ SetupConnect
    \/ SetupForward
    \/ UnloadEntry
    \/ AddedToHass
    \/ RemovedFromHass
    \/ SetupYoutubeApi
    \/ SetupYoutubeApiLookup
    \/ NewState
    \/ NewStateLookup

Spec == Init /\ [][Next]_vars

\* ------------------------------------------------------------- the claims
\* the state table of the integration's documentation
HostStateOf ==
    [s \in YtStates |->
        CASE s \in {"Playing", "Starting", "Buffering"} -> "playing"
          [] s = "Paused" -> "paused"
          [] s = "Stopped" -> "on"
          [] OTHER -> "off"]

\* C1: whatever upstream state the snapshot holds, the adapter reports
\* Playing for Playing/Starting/Buffering, Paused for Paused, On for
\* Stopped and Off for every other value, before and after push updates.
C1_StateMapping ==
    player # "none" => State(state) = HostStateOf[state.state]

C1_Witness ==
    /\ player = "added" /\ now > 0
    /\ state.state = "Buffering" /\ State(state) = "playing"

LastCode == lastSubmit.input["pairing_code"]

\* C2: a pairing code that does not parse as an integer yields the form
\* error invalid_auth whatever the client would have answered: pair is not
\* called, no entry is created, the pairing form is shown again.
C2_BadCodeIsInvalidAuth ==
    (lastSubmit.step = "pair" /\ ~ParseInt(LastCode).ok) =>
        /\ flowResult = ShowForm("pair", "invalid_auth")
        /\ ~lastSubmit.pairCalled
        /\ lastSubmit.pairArg = {}

C2_Witness ==
    /\ lastSubmit.step = "pair" /\ LastCode = <<"a">>
    /\ lastSubmit.pairs = "true"
    /\ flowResult.type = "form" /\ flowResult.errors = "invalid_auth"

\* C3: the created entry has the screen name as title and its data holds
\* the pairing code, the serialized auth token and, when the user supplied
\* an API key in the key step, that key.
C3_EntryKeepsKey ==
    flowResult.type = "create_entry" =>
        /\ flowResult.title = lastSubmit.screen
        /\ Get(flowResult.data, "pairing_code") = LastCode
        /\ Has(flowResult.data, "auth")
        /\ flowResult.data["auth"] = Serialize(AuthOf(lastSubmit.screen))
        /\ Truthy(acceptedKey) =>
              Get(flowResult.data, "google_api_key") = acceptedKey

\* C4: submitting the key step with the API key field omitted performs no
\* lookup, reports no error and goes on to the pairing form.
C4_OmittedKeyGoesOn ==
    (lastSubmit.step = "user" /\ ~Has(lastSubmit.input, "google_api_key")) =>
        /\ flowResult = ShowForm("pair", None)
        /\ ~lastSubmit.lookedUp

\* C5: with an API key supplied, a failed validation shows the key form
\* again with invalid_auth for an upstream 400 and cannot_connect for any
\* other failure, the discovery handshake included.
C5_KeyFailureClassified ==
    (/\ lastSubmit.step = "user"
     /\ Truthy(Get(lastSubmit.input, "google_api_key"))
     /\ (lastSubmit.discover # "ok" \/ lastSubmit.trial # "ok")) =>
        flowResult =
            ShowForm("user",
                     IF lastSubmit.discover = "ok" /\ lastSubmit.trial = "http400"
                     THEN "invalid_auth" ELSE "cannot_connect")

\* C6: an entry exists only after pair returned true for the integer code;
\* a refused pairing reports invalid_auth; after a validation error the
\* form of the same step is shown with the error, no entry exists, and a
\* valid submission of that step still goes through.
C6_ErrorsKeepTheFlow ==
    /\ flowResult.type = "create_entry" =>
          /\ lastSubmit.step = "pair" /\ lastSubmit.pairCalled
          /\ lastSubmit.pairs = "true"
          /\ ParseInt(LastCode).ok
          /\ lastSubmit.pairArg = {ParseInt(LastCode).value}
    /\ (lastSubmit.step = "pair" /\ lastSubmit.pairCalled
            /\ lastSubmit.pairs = "false") =>
          flowResult = ShowForm("pair", "invalid_auth")
    /\ (lastSubmit.step # None /\ lastSubmit.raised # "ok") =>
          /\ flowResult.type = "form"
          /\ flowResult.step_id = lastSubmit.step
          /\ flowResult.errors \in {"invalid_auth", "cannot_connect", "unknown"}
          /\ nSubmits < MaxSubmits =>
                IF lastSubmit.step = "pair"
                THEN ENABLED (SubmitPair /\ flowResult'.type = "create_entry")
                ELSE ENABLED (SubmitUser /\ flowResult' = ShowForm("pair", None))

C6_Witness ==
    /\ flowResult.type = "create_entry"
    /\ nSubmits = 3

\* C7: when connect returns false setup still returns True, registers no
\* handle and creates no adapter; when it returns true the handle is
\* registered before the adapter is created from it.
C7_SetupSoftDegrades ==
    /\ (connected = "false") =>
          /\ setupPc = "done" /\ setupResult = "True"
          /\ ~Has(hassData, entry.entry_id)
          /\ player = "none"
    /\ (setupPc = "forwarding") =>
          /\ connected = "true" /\ player = "none"
          /\ Has(hassData, entry.entry_id)
          /\ hassData[entry.entry_id] = ApiOf(entry.data)
    /\ (player # "none") => connected = "true"

C7_Witness ==
    /\ connected = "false" /\ setupResult = "True" /\ nSetups = 2

\* C8: unloading an entry that was set up returns True and leaves no handle
\* when the platform unload succeeds, whatever connect answered at setup,
\* and returns the failure, keeping the handle, when it does not.
C8_UnloadNeverRaises ==
    unloadResult # None =>
        /\ unloadResult \in {"True", "False"}
        /\ unloadResult = "True" => ~Has(hassData, entry.entry_id)
        /\ unloadResult = "False" =>
              (connected = "true" <=> Has(hassData, entry.entry_id))

SameVideoTwice ==
    /\ obs.prevPush.id = obs.lastPush.id
    /\ Truthy(obs.lastPush.id)
    /\ obs.prevPush.ready /\ obs.lastPush.ready

\* C9 as stated: two consecutive push updates with the same video id, the
\* metadata client ready, issue at most one lookup between them.
C9_AtMostOneLookup ==
    SameVideoTwice => obs.prevPush.issued + obs.lastPush.issued <= 1

\* C9: two consecutive push updates with the same video id, the metadata
\* client ready and the first update's lookup not failed, issue at most one
\* lookup: the second update is a cache hit and issues none.
C9_SecondIsCacheHit ==
    (SameVideoTwice /\ obs.prevPush.result \in {"ok", "hit"}) =>
        /\ obs.lastPush.issued = 0
        /\ obs.lastPush.result = "hit"
        /\ obs.prevPush.issued + obs.lastPush.issued <= 1

C9_Witness ==
    /\ SameVideoTwice
    /\ obs.prevPush.result = "ok" /\ obs.prevPush.issued = 1
    /\ obs.lastPush.result = "hit"

\* C10: without an API key the metadata stays empty after any push updates
\* and neither the metadata client's initialization nor a lookup is ever
\* attempted.
C10_NoKeyNoMetadata ==
    (player # "none" /\ ~Truthy(google_api_key)) =>
        /\ media_title(video_info) = ""
        /\ media_channel(video_info) = ""
        /\ IsNone(video_info)
        /\ obs.lookups = 0 /\ obs.discovers = 0
        /\ initTask.pc = "none" /\ yt_api = None
        /\ callback.pc = "idle"

C10_Witness ==
    /\ player = "added" /\ ~Truthy(google_api_key)
    /\ now >= 2
    /\ Truthy(obs.prevPush.id) /\ Truthy(obs.lastPush.id)
    /\ obs.prevPush.id # obs.lastPush.id

C12_RemovalIsFinal ==
    /\ [](player = "removed" =>
            /\ ~obs.hookRaised
            /\ subscription # "running"
            /\ callback.pc = "idle"
            /\ obs.started = 0 => subscription = None /\ obs.cancelled = 0)
    /\ [][(player = "removed" /\ player' = "removed") =>
            /\ subscription' = subscription
            /\ obs'.cancelled = obs.cancelled
            /\ state' = state /\ state_time' = state_time /\ now' = now
            /\ obs'.pushed = obs.pushed
            /\ obs'.lastPush = obs.lastPush]_vars

C12_Witness ==
    /\ player = "removed" /\ obs.started = 1
    /\ obs.lastPush.id = None /\ subscription = "cancelled"

\* the client operation each command stands for
ClientOpOf ==
    [pause |-> "pause", play |-> "play", previous |-> "previous",
     next |-> "next", seek |-> "seek_to"]

\* C13: a transport command issues exactly one call, to its own client
\* operation (seek with the position given), does not call again when the
\* call fails, fails with it, and leaves snapshot, timestamp and metadata
\* cache as they were.
C13_CommandsForwardOnce ==
    /\ [](command.pc # "idle" =>
            /\ Len(command.calls) = 1
            /\ command.calls[1].op = ClientOpOf[command.name]
            /\ command.calls[1].args =
                  IF command.name = "seek" THEN <<command.position>> ELSE <<>>
            /\ command.pc = "raised" <=> command.failed
            /\ command.pc = "returned" => ~command.failed)
    /\ [][command' # command =>
            /\ state' = state
            /\ state_time' = state_time
            /\ video_info' = video_info]_vars

C13_Witness ==
    /\ command.pc = "raised" /\ command.name = "seek"
    /\ ~IsNone(video_info) /\ now > 0

PushHandled ==
    /\ obs.lastPush.id # None
    /\ obs.lastPush.result \in {"hit", "cleared", "ok", "raised"}

\* C14: once a push update has been handled the snapshot is the pushed one,
\* the timestamp is the time it was pushed, the host has been notified
\* (also when the metadata lookup failed) and the accessors report the
\* pushed snapshot.
C14_EveryPushNotifies ==
    PushHandled =>
        /\ state = obs.pushed
        /\ state_time = now
        /\ State(state) = HostStateOf[obs.pushed.state]
        /\ media_position(state) = IntOf(obs.pushed.currentTime)
        /\ media_duration(state) = IntOf(obs.pushed.duration)
        /\ media_image_url(state) =
              IF obs.pushed.videoId = "" THEN None
              ELSE get_thumbnail_url(obs.pushed.videoId)
        /\ obs.lastPush.notified

\* C15: after a push update whose metadata lookup failed, title and channel
\* read as empty, the lookup was issued once, and the next push update with
\* the same id looks up again unless the cache holds that id by then.
C15_FailedLookupClearsMetadata ==
    /\ obs.lastPush.result = "raised" =>
          /\ media_title(video_info) = ""
          /\ media_channel(video_info) = ""
          /\ obs.lastPush.issued = 1
    /\ (obs.prevPush.result = "raised" /\ obs.lastPush.id = obs.prevPush.id) =>
          obs.lastPush.issued = 1 \/ obs.lastPush.result = "hit"

\* C16: the cached metadata is absent or carries the video id of the
\* current snapshot, in every state, a pending lookup included.
C16_CacheMatchesSnapshot ==
    (player # "none" /\ ~IsNone(video_info)) =>
        Val(video_info).id = state.videoId

\* C18: two lookups for the same video id, one by the initializer and one
\* by a push callback, are never in flight together.
C18_OneLookupPerId ==
    (initTask.pc = "lookup" /\ callback.pc = "lookup") =>
        initTask.req # callback.req

WritesSnapshot == state' # state \/ state_time' # state_time

WritesCache == video_info' # video_info

CallbackStep == now' # now \/ callback' # callback

InitializerStep == initTask' # initTask

CommandStep == command' # command

\* C17 as stated: snapshot, timestamp and metadata cache are written only
\* in steps of the subscription callback, never in a step of the
\* initializer task or of a command.
C17_OnlyCallbackWrites ==
    [][(WritesSnapshot \/ WritesCache) =>
          CallbackStep /\ ~InitializerStep /\ ~CommandStep]_vars

\* C17: snapshot and timestamp are written only by the subscription
\* callback, both in the step that delivers the push update; the metadata
\* cache is written only by the callback and by the initializer's refresh;
\* a command writes none of them.
C17_WritersOfTheFields ==
    [][/\ WritesSnapshot =>
            now' # now /\ ~InitializerStep /\ ~CommandStep
       /\ now' # now => state_time' = now' /\ state' = obs'.pushed
       /\ WritesCache =>
            (CallbackStep \/ InitializerStep) /\ ~CommandStep
       /\ CommandStep => ~WritesSnapshot /\ ~WritesCache]_vars

C17_Witness ==
    /\ command.pc = "awaiting"
    /\ initTask.pc = "lookup"
    /\ callback.pc = "lookup"

====
